---------------------------- MODULE Spec2Model ----------------------------
(***************************************************************************)
(* The Off-Normal Alarm of node-opcua (UAOffNormalAlarm): an alarm that    *)
(* watches an input variable against a "normal state" variable and is      *)
(* active while the two values differ.                                     *)
(*                                                                         *)
(* The address space holds two value-bearing variables.  The static       *)
(* method instantiate builds the alarm and wires a "value_changed"         *)
(* listener on each of them; every later value change of a variable is     *)
(* delivered to its listener, which runs the comparator _updateAlarmState. *)
(***************************************************************************)
EXTENDS Integers, Sequences, FiniteSets, TLC

(***************************************************************************)
(* Bounds of the model.                                                    *)
(***************************************************************************)
\* number of distinct non-null values a variable can take
NumValues == 2
\* number of value changes delivered after a successful instantiate
MaxDeliveries == 4

(***************************************************************************)
(* Values.  A JavaScript value is a sequence: <<>> is null/undefined,      *)
(* <<n>> is the number n.  A Variant pairs a dataType with a value, a      *)
(* DataValue pairs a statusCode with a Variant.                            *)
(***************************************************************************)
undefined == <<>>

StatusCodes == {"Good", "Bad"}

DataType == {"Null", "Int32"}

NullVariant == [dataType |-> "Null", value |-> undefined]

Variants ==
    {NullVariant} \cup {[dataType |-> "Int32", value |-> <<n>>] : n \in 1..NumValues}

DataValues == [statusCode : StatusCodes, value : Variants]

\* the values a variable holds when the alarm is instantiated
InitialDataValues == {dv \in DataValues : dv.statusCode = "Good"}

InputNodeId == "ns=1;s=Input"
NormalNodeId == "ns=1;s=Normal"
GhostNodeId == "ns=1;s=Ghost"
NullNodeId == "ns=0;i=0"

\* the alarm's own NormalState property, a variable holding a NodeId
NormalStateProperty == "alarmNode.normalState"

\* the variables that exist in the address space
NodeIds == {InputNodeId, NormalNodeId}

\* the options a caller can hand to instantiate: any subset of the two
\* properties, each naming a live variable or a node that does not exist
OptionSets ==
    UNION {[D -> {InputNodeId, NormalNodeId, GhostNodeId}] :
              D \in SUBSET {"inputNode", "normalState"}}

Options ==
    {o \in OptionSets :
        /\ ("inputNode" \in DOMAIN o => o["inputNode"] \in {InputNodeId, GhostNodeId})
        /\ ("normalState" \in DOMAIN o => o["normalState"] \in {NormalNodeId, GhostNodeId})}

VARIABLES
    pc,           \* "init": before instantiate; "ready": alarm wired; "failed": instantiate threw
    eventTypes,   \* the event types the address space knows
    nodes,        \* the current DataValue of each variable of the address space
    alarmObjects, \* the alarm objects built in the address space by the base instantiate
    alarmNode,    \* the alarm: activeState, its NormalState and InputNode properties
    listeners,    \* the "value_changed" listeners: pairs <<nodeId, handler>>
    events,       \* the Condition Events handed to the condition framework, in order
    callOptions,  \* the options object of the instantiate call
    error,        \* the message of the error instantiate threw, "" when none
    delivered,    \* the number of value changes delivered so far
    last,         \* the last operation, the state it started from, and the operation before it
    lastGood,     \* per variable, the value of its last good-quality delivery (undefined: none yet)
    scenario,     \* how far the latest deliveries follow the trace input=a, input=b, input=b, normal=b
    setCall,      \* whether setNormalStateValue was called, on which activeState, and what it threw
    compare,      \* one application of the comparator to a pair of typed values
    parsePc,      \* parse_opcua_common: "idle", "running", "finished" (callback invoked), "thrown"
    binSchemaReferences, \* the dictionaries for_all_binary_schemas has not finished, in order
    outstanding,  \* the session requests issued and not yet answered
    each,         \* the async.each over the types of the current dictionary
    calls,        \* the err argument of every invocation of the completion callback, in order
    firstError,   \* the error of the first session request that failed
    startedAfterError \* whether a session request was issued after a request had failed

alarmVars == <<pc, eventTypes, nodes, alarmObjects, alarmNode, listeners, events,
               callOptions, error, delivered, last, lastGood, scenario, setCall>>

compareVars == <<compare>>

parseVars == <<parsePc, binSchemaReferences, outstanding, each, calls, firstError,
               startedAfterError>>

vars == <<alarmVars, compareVars, parseVars>>

(***************************************************************************)
(* Helpers of the libraries the alarm uses.                                *)
(***************************************************************************)
isNullOrUndefined(value) == value = undefined

hasOwnProperty(options, name) == name \in DOMAIN options

\* addressSpace.findNode / addressSpace._coerceNode: the node, or null
findNode(space, nodeId) == IF nodeId \in DOMAIN space THEN nodeId ELSE NullNodeId

\* node.readValue(): the current DataValue of a variable
readValue(space, nodeId) == space[nodeId]

(***************************************************************************)
(* The alarm.  `this` is the pair of the alarm node and the event sink:    *)
(* [activeState, normalState, inputNode, events].                          *)
(***************************************************************************)
getNormalStateNode(this, space) == findNode(space, this.normalState)

getNormalStateValue(this, space) ==
    readValue(space, getNormalStateNode(this, space)).value.value

getInputNodeValue(this, space) ==
    readValue(space, findNode(space, this.inputNode)).value.value

\* the condition framework: record the new state and raise the event
_signalNewCondition(this, stateName, isActive, message) ==
    [this EXCEPT
        !.activeState = isActive,
        !.events = Append(@, [transitionName |-> stateName,
                              isActive |-> isActive,
                              message |-> message])]

\* isEqual comparing a value with itself
isEqual_SameOperand(value1, value2) == value1 = value1

isEqual(value1, value2) == value1 = value2

\* _updateAlarmState without the "no change => ignore" return
_updateAlarmState_NoGuard(this, normalStateValue, inputValue) ==
    IF isNullOrUndefined(normalStateValue) \/ isNullOrUndefined(inputValue)
    THEN [this EXCEPT !.activeState = FALSE]
    ELSE LET isActive == ~isEqual(normalStateValue, inputValue)
         IN  _signalNewCondition(this,
                 IF isActive THEN "Active" ELSE "Inactive", isActive, "")

\* _updateAlarmState with the "no change" test inverted
_updateAlarmState_InvertedGuard(this, normalStateValue, inputValue) ==
    IF isNullOrUndefined(normalStateValue) \/ isNullOrUndefined(inputValue)
    THEN [this EXCEPT !.activeState = FALSE]
    ELSE LET isActive == ~isEqual(normalStateValue, inputValue)
         IN  IF isActive # this.activeState
             THEN this
             ELSE _signalNewCondition(this,
                      IF isActive THEN "Active" ELSE "Inactive", isActive, "")

\* _updateAlarmState raising "Inactive" when a value is unknown and the alarm is active
_updateAlarmState_SignalsUnknown(this, normalStateValue, inputValue) ==
    IF isNullOrUndefined(normalStateValue) \/ isNullOrUndefined(inputValue)
    THEN IF this.activeState
         THEN _signalNewCondition(this, "Inactive", FALSE, "")
         ELSE this
    ELSE LET isActive == ~isEqual(normalStateValue, inputValue)
         IN  IF isActive = this.activeState
             THEN this
             ELSE _signalNewCondition(this,
                      IF isActive THEN "Active" ELSE "Inactive", isActive, "")

\* _updateAlarmState that never leaves the active state on a comparison
_updateAlarmState_NeverClears(this, normalStateValue, inputValue) ==
    IF isNullOrUndefined(normalStateValue) \/ isNullOrUndefined(inputValue)
    THEN [this EXCEPT !.activeState = FALSE]
    ELSE LET isActive == ~isEqual(normalStateValue, inputValue)
         IN  IF ~isActive \/ this.activeState
             THEN this
             ELSE _signalNewCondition(this, "Active", isActive, "")

_updateAlarmState(this, normalStateValue, inputValue) ==
    IF isNullOrUndefined(normalStateValue) \/ isNullOrUndefined(inputValue)
    THEN [this EXCEPT !.activeState = FALSE]
    ELSE LET isActive == ~isEqual(normalStateValue, inputValue)
         IN  IF isActive = this.activeState
             THEN this
             ELSE _signalNewCondition(this,
                      IF isActive THEN "Active" ELSE "Inactive", isActive, "")

\* _onInputDataValueChange without the statusCode test
_onInputDataValueChange_NoStatusCheck(this, space, dataValue) ==
    IF dataValue.value.dataType = "Null" THEN this
    ELSE _updateAlarmState(this, getNormalStateValue(this, space), dataValue.value.value)

_onInputDataValueChange(this, space, dataValue) ==
    IF dataValue.statusCode # "Good" THEN this
    ELSE IF dataValue.value.dataType = "Null" THEN this
    ELSE LET inputValue == dataValue.value.value
             normalStateValue == getNormalStateValue(this, space)
         IN  _updateAlarmState(this, normalStateValue, inputValue)

\* _onNormalStateDataValueChange with an empty body, as the listener on the
\* NormalState property has
_onNormalStateDataValueChange_Empty(this, space, dataValue) == this

_onNormalStateDataValueChange(this, space, dataValue) ==
    IF dataValue.statusCode # "Good" THEN this
    ELSE IF dataValue.value.dataType = "Null" THEN this
    ELSE LET normalStateValue == dataValue.value.value
             inputValue == getInputNodeValue(this, space)
         IN  _updateAlarmState(this, normalStateValue, inputValue)

\* setNormalStateValue writing the value through to the normal-state variable
setNormalStateValue_Writes(this, space, value) ==
    LET normalStateNode == getNormalStateNode(this, space)
        dataValue == [statusCode |-> "Good",
                      value |-> IF value = undefined THEN NullVariant
                                ELSE [dataType |-> "Int32", value |-> value]]
        written == [space EXCEPT ![normalStateNode] = dataValue]
    IN  [error |-> "", space |-> written,
         this |-> _onNormalStateDataValueChange(this, written, dataValue)]

\* the outcome of the call: the message of the error thrown, and the state left
setNormalStateValue(this, space, value) ==
    LET normalStateNode == getNormalStateNode(this, space)
    IN  IF normalStateNode = NullNodeId
        THEN [error |-> "getNormalStateNode ", space |-> space, this |-> this]
        ELSE [error |-> "Not Implemented yet", space |-> space, this |-> this]

(***************************************************************************)
(* UAOffNormalAlarm.instantiate.  The outcome is the state the call leaves *)
(* behind, whether it returns or throws: the error message ("" when the    *)
(* call returned), the alarm objects built, the alarm node, the listeners  *)
(* installed and the options object as the call left it.                   *)
(***************************************************************************)
NoAlarm == [activeState |-> FALSE, normalState |-> NullNodeId, inputNode |-> NullNodeId]

NoOutcome(options) ==
    [error |-> "", alarmObjects |-> {}, alarmNode |-> NoAlarm,
     listeners |-> {}, events |-> <<>>, options |-> options]

Throw(outcome, message) == [outcome EXCEPT !.error = message]

\* The base discrete-alarm construction: it builds the alarm object in the
\* address space, inactive, with its properties not yet set.
UADiscreteAlarm_instantiate(outcome) ==
    [outcome EXCEPT !.alarmObjects = @ \cup {"alarmNode"}, !.alarmNode = NoAlarm]

\* The base alarm's input monitoring: it stores the input node in the InputNode
\* property and listens to the value changes of the input variable.
_installInputNodeMonitoring(outcome, space, inputNode) ==
    [outcome EXCEPT
        !.alarmNode.inputNode = findNode(space, inputNode),
        !.listeners = @ \cup {<<findNode(space, inputNode), "_onInputDataValueChange">>}]

WithEvents(node, evts) ==
    [activeState |-> node.activeState, normalState |-> node.normalState,
     inputNode |-> node.inputNode, events |-> evts]

WithoutEvents(this) ==
    [activeState |-> this.activeState, normalState |-> this.normalState,
     inputNode |-> this.inputNode]

\* the tail of instantiate, its initial evaluation reading the two variables
instantiate_wire_ReadsValues(built, space, options) ==
    LET inputNode == findNode(space, options["inputNode"])
        normalState == findNode(space, options["normalState"])
    IN  IF inputNode = NullNodeId
        THEN Throw(built, "Expecting a valid input node")
        ELSE IF normalState = NullNodeId
        THEN Throw(built, "Expecting a valid normalState node")
        ELSE LET stored == [built EXCEPT !.alarmNode.normalState = normalState]
                 monitored == _installInputNodeMonitoring(stored, space, options["inputNode"])
                 wired == [monitored EXCEPT
                              !.listeners = @ \cup {<<NormalStateProperty, "todo">>,
                                                     <<normalState, "_onNormalStateDataValueChange">>}]
                 alarm == WithEvents(wired.alarmNode, wired.events)
                 this == _updateAlarmState(alarm, getNormalStateValue(alarm, space),
                                           getInputNodeValue(alarm, space))
             IN  [wired EXCEPT !.alarmNode = WithoutEvents(this), !.events = this.events]

\* the tail of instantiate, without the listener on the normal-state variable
instantiate_wire_NoNormalListener(built, space, options) ==
    LET inputNode == findNode(space, options["inputNode"])
        normalState == findNode(space, options["normalState"])
    IN  IF inputNode = NullNodeId
        THEN Throw(built, "Expecting a valid input node")
        ELSE IF normalState = NullNodeId
        THEN Throw(built, "Expecting a valid normalState node")
        ELSE LET stored == [built EXCEPT !.alarmNode.normalState = normalState]
                 monitored == _installInputNodeMonitoring(stored, space, options["inputNode"])
                 wired == [monitored EXCEPT
                              !.listeners = @ \cup {<<NormalStateProperty, "todo">>}]
                 this == _updateAlarmState(WithEvents(wired.alarmNode, wired.events),
                                           undefined, undefined)
             IN  [wired EXCEPT !.alarmNode = WithoutEvents(this), !.events = this.events]

\* the tail of instantiate, from the resolution of the two nodes on
instantiate_wire(built, space, options) ==
    LET inputNode == findNode(space, options["inputNode"])
        normalState == findNode(space, options["normalState"])
    IN  IF inputNode = NullNodeId
        THEN Throw(built, "Expecting a valid input node")
        ELSE IF normalState = NullNodeId
        THEN Throw(built, "Expecting a valid normalState node")
        ELSE LET stored == [built EXCEPT !.alarmNode.normalState = normalState]
                 monitored == _installInputNodeMonitoring(stored, space, options["inputNode"])
                 wired == [monitored EXCEPT
                              !.listeners = @ \cup {<<NormalStateProperty, "todo">>,
                                                     <<normalState, "_onNormalStateDataValueChange">>}]
                 this == _updateAlarmState(WithEvents(wired.alarmNode, wired.events),
                                           undefined, undefined)
             IN  [wired EXCEPT !.alarmNode = WithoutEvents(this), !.events = this.events]

\* instantiate checking its options only after the base alarm is built
instantiate_BuildFirst(space, types, options) ==
    IF "OffNormalAlarmType" \notin types
    THEN Throw(NoOutcome(options), "cannot find offNormalAlarmType")
    ELSE LET built == UADiscreteAlarm_instantiate(NoOutcome(options))
         IN  IF ~hasOwnProperty(options, "inputNode")
             THEN Throw(built, "must provide inputNode")
             ELSE IF ~hasOwnProperty(options, "normalState")
             THEN Throw(built, "must provide a normalState Node")
             ELSE instantiate_wire(built, space, options)

instantiate(space, types, options) ==
    IF "OffNormalAlarmType" \notin types
    THEN Throw(NoOutcome(options), "cannot find offNormalAlarmType")
    ELSE IF ~hasOwnProperty(options, "inputNode")
    THEN Throw(NoOutcome(options), "must provide inputNode")
    ELSE IF ~hasOwnProperty(options, "normalState")
    THEN Throw(NoOutcome(options), "must provide a normalState Node")
    ELSE LET withOptionals == NoOutcome(options @@ ("optionals" :> <<>>))
             built == UADiscreteAlarm_instantiate(withOptionals)
         IN  instantiate_wire(built, space, options)

(***************************************************************************)
(* The variables of the address space: a value change stores the new       *)
(* DataValue in the variable and emits "value_changed" to its listeners.   *)
(***************************************************************************)
setValueFromSource(space, nodeId, dataValue) == [space EXCEPT ![nodeId] = dataValue]

\* the listeners of a variable run in the order they were installed
emitValueChanged(this, subscribed, space, nodeId, dataValue) ==
    LET afterInput ==
            IF <<nodeId, "_onInputDataValueChange">> \in subscribed
            THEN _onInputDataValueChange(this, space, dataValue)
            ELSE this
    IN  IF <<nodeId, "_onNormalStateDataValueChange">> \in subscribed
        THEN _onNormalStateDataValueChange(afterInput, space, dataValue)
        ELSE afterInput

(***************************************************************************)
(* Observers.  `last` remembers the last operation; `scenario` follows the *)
(* latest deliveries against the four-step trace                           *)
(*     input = a, input = b, input = b, normal = b      (a # b)            *)
(* started on an inactive alarm whose normal-state variable holds a.       *)
(***************************************************************************)
IsGood(dataValue) == dataValue.statusCode = "Good" /\ dataValue.value.dataType # "Null"

NoDataValue == [statusCode |-> "Good", value |-> NullVariant]

Brief(observation) ==
    [op |-> observation.op, dataValue |-> observation.dataValue,
     eventsBefore |-> observation.eventsBefore]

NoObservation ==
    [op |-> "none", dataValue |-> NoDataValue, eventsBefore |-> 0, activeBefore |-> FALSE,
     nodesBefore |-> [n \in NodeIds |-> NoDataValue],
     prev |-> [op |-> "none", dataValue |-> NoDataValue, eventsBefore |-> 0]]

\* the operation op(dataValue), started when the variables held `space`, the
\* alarm was `active`, `evts` had been emitted and `before` was the last operation
Observation(op, dataValue, space, active, evts, before) ==
    [op |-> op, dataValue |-> dataValue, eventsBefore |-> Len(evts),
     activeBefore |-> active, nodesBefore |-> space, prev |-> Brief(before)]

NoScenario == [stage |-> 0, a |-> undefined, b |-> undefined, eventsBefore |-> 0, states |-> <<>>]

\* the scenario after the delivery of dataValue on nodeId, made when the
\* variables held `space`, the alarm was `active` and `evts` had been emitted
ScenarioStep(sc, space, active, evts, nodeId, dataValue, activeAfter) ==
    LET v == dataValue.value.value
        follows ==
            /\ IsGood(dataValue)
            /\ \/ sc.stage = 1 /\ nodeId = InputNodeId /\ v # sc.a
               \/ sc.stage = 2 /\ nodeId = InputNodeId /\ v = sc.b
               \/ sc.stage = 3 /\ nodeId = NormalNodeId /\ v = sc.b
        starts ==
            /\ IsGood(dataValue)
            /\ nodeId = InputNodeId
            /\ IsGood(space[NormalNodeId])
            /\ space[NormalNodeId].value.value = v
            /\ ~active
    IN  IF follows
        THEN [sc EXCEPT !.stage = @ + 1, !.b = v, !.states = Append(@, activeAfter)]
        ELSE IF starts
        THEN [stage |-> 1, a |-> v, b |-> undefined, eventsBefore |-> Len(evts),
              states |-> <<activeAfter>>]
        ELSE NoScenario

(***************************************************************************)
(* The state machine.                                                      *)
(***************************************************************************)
NoCall == [called |-> FALSE, active |-> FALSE, error |-> ""]

\* the values a caller can hand to setNormalStateValue
JsValues == {variant.value : variant \in Variants}

\* no comparison of typed values has been set up
NoComparison ==
    [state |-> "idle", normal |-> NullVariant, input |-> NullVariant,
     activeState |-> FALSE, events |-> <<>>]

CompareIdle == compare = NoComparison

\* the err of a callback called without error
NoError == <<>>

NoEach == [length |-> 0, completed |-> 0, called |-> TRUE]

\* parse_opcua_common has not been called
ParseIdle ==
    /\ parsePc = "idle"
    /\ binSchemaReferences = <<>>
    /\ outstanding = {}
    /\ each = NoEach
    /\ calls = <<>>
    /\ firstError = NoError
    /\ startedAfterError = FALSE

AlarmInit ==
    /\ pc = "init"
    /\ eventTypes \in {{}, {"OffNormalAlarmType"}}
    /\ nodes \in [NodeIds -> InitialDataValues]
    /\ alarmObjects = {}
    /\ alarmNode = NoAlarm
    /\ listeners = {}
    /\ events = <<>>
    /\ callOptions = <<>>
    /\ error = ""
    /\ delivered = 0
    /\ last = NoObservation
    /\ lastGood = [n \in NodeIds |-> undefined]
    /\ scenario = NoScenario
    /\ setCall = NoCall

Instantiate(options) ==
    /\ pc = "init"
    /\ LET outcome == instantiate(nodes, eventTypes, options)
       IN  /\ pc' = IF outcome.error = "" THEN "ready" ELSE "failed"
           /\ error' = outcome.error
           /\ alarmObjects' = outcome.alarmObjects
           /\ alarmNode' = outcome.alarmNode
           /\ listeners' = outcome.listeners
           /\ events' = outcome.events
           /\ callOptions' = outcome.options
    /\ last' = Observation("instantiate", NoDataValue, nodes, alarmNode.activeState, events, last)
    /\ UNCHANGED <<eventTypes, nodes, delivered, lastGood, scenario, setCall>>
    /\ UNCHANGED <<compareVars, parseVars>>

Deliver(nodeId, dataValue) ==
    /\ pc # "init"
    /\ delivered < MaxDeliveries
    /\ LET space == setValueFromSource(nodes, nodeId, dataValue)
           this == emitValueChanged(WithEvents(alarmNode, events), listeners,
                                    space, nodeId, dataValue)
       IN  /\ nodes' = space
           /\ alarmNode' = WithoutEvents(this)
           /\ events' = this.events
           /\ scenario' = ScenarioStep(scenario, nodes, alarmNode.activeState, events,
                                       nodeId, dataValue, this.activeState)
    /\ delivered' = delivered + 1
    /\ last' = Observation(nodeId, dataValue, nodes, alarmNode.activeState, events, last)
    /\ lastGood' = IF IsGood(dataValue)
                   THEN [lastGood EXCEPT ![nodeId] = dataValue.value.value]
                   ELSE lastGood
    /\ UNCHANGED <<pc, eventTypes, alarmObjects, listeners, callOptions, error, setCall>>
    /\ UNCHANGED <<compareVars, parseVars>>

\* a call of alarm.setNormalStateValue(value) by the owner of the wired alarm
SetNormalStateValue(value) ==
    /\ pc = "ready"
    /\ LET outcome == setNormalStateValue(WithEvents(alarmNode, events), nodes, value)
       IN  /\ nodes' = outcome.space
           /\ alarmNode' = WithoutEvents(outcome.this)
           /\ events' = outcome.this.events
           /\ setCall' = [called |-> TRUE, active |-> alarmNode.activeState,
                          error |-> outcome.error]
    /\ UNCHANGED <<pc, eventTypes, alarmObjects, listeners, callOptions, error,
                   delivered, last, lastGood, scenario>>
    /\ UNCHANGED <<compareVars, parseVars>>

AlarmNext ==
    \/ \E options \in Options : Instantiate(options)
    \/ \E nodeId \in NodeIds, dataValue \in DataValues : Deliver(nodeId, dataValue)
    \/ \E value \in JsValues : SetNormalStateValue(value)

Next == AlarmNext

Init == AlarmInit /\ CompareIdle /\ ParseIdle

Spec == Init /\ [][Next]_vars

(***************************************************************************)
(* The comparator applied to typed values.  A handler hands                *)
(* dataValue.value.value to _updateAlarmState and reads the other          *)
(* variable's value.value: the dataType of neither Variant reaches the     *)
(* comparator.  Int32 and Double values are JavaScript numbers, <<n>>.  A  *)
(* UInt64 value is a JavaScript object, an array [high, low]: <<n, ref>>   *)
(* is the object ref with content n, and === on objects compares ref.      *)
(***************************************************************************)
NumObjects == 2

NumberTypes == {"Int32", "Double"}

TypedVariants ==
    {[dataType |-> t, value |-> <<n>>] : t \in NumberTypes, n \in 1..NumValues}
    \cup {[dataType |-> "UInt64", value |-> <<n, ref>>] :
              n \in 1..NumValues, ref \in 1..NumObjects}

IsObject(variant) == variant.dataType \notin NumberTypes

\* one object has one content
Coherent(normal, input) ==
    (IsObject(normal) /\ IsObject(input) /\ normal.value[2] = input.value[2])
        => normal.value[1] = input.value[1]

GoodDataValue(variant) == [statusCode |-> "Good", value |-> variant]

\* the wired alarm and the two variables holding the pair to compare
CompareThis ==
    [activeState |-> compare.activeState, normalState |-> NormalNodeId,
     inputNode |-> InputNodeId, events |-> <<>>]

CompareSpace ==
    [n \in NodeIds |-> GoodDataValue(IF n = InputNodeId THEN compare.input
                                                         ELSE compare.normal)]

AlarmIdle ==
    /\ AlarmInit
    /\ eventTypes = {}
    /\ nodes = [n \in NodeIds |-> NoDataValue]

CompareInit ==
    /\ AlarmIdle
    /\ ParseIdle
    /\ \E normal \in TypedVariants, input \in TypedVariants, active \in BOOLEAN :
          /\ Coherent(normal, input)
          /\ compare = [state |-> "drawn", normal |-> normal, input |-> input,
                        activeState |-> active, events |-> <<>>]

Compared(via, this) ==
    /\ compare' = [compare EXCEPT !.state = via, !.activeState = this.activeState,
                                  !.events = this.events]
    /\ UNCHANGED <<alarmVars, parseVars>>

\* the input value is delivered while the normal-state variable holds its value
CompareOnInputChange ==
    /\ compare.state = "drawn"
    /\ Compared("input", _onInputDataValueChange(CompareThis, CompareSpace,
                                                 GoodDataValue(compare.input)))

\* the normal-state value is delivered while the input variable holds its value
CompareOnNormalStateChange ==
    /\ compare.state = "drawn"
    /\ Compared("normal", _onNormalStateDataValueChange(CompareThis, CompareSpace,
                                                        GoodDataValue(compare.normal)))

CompareNext == CompareOnInputChange \/ CompareOnNormalStateChange

SpecCompare == CompareInit /\ [][CompareNext]_vars

(***************************************************************************)
(* parse_opcua_common.  The session answers a request some time after it   *)
(* was issued; every answer is one step, the whole callback of the         *)
(* request.  The state of the procedure is handled as a record p with one  *)
(* field per variable.                                                     *)
(***************************************************************************)
MaxSchemas == 2

MaxTypes == 2

ParseState ==
    [parsePc |-> parsePc, binSchemaReferences |-> binSchemaReferences,
     outstanding |-> outstanding, each |-> each, calls |-> calls,
     firstError |-> firstError, startedAfterError |-> startedAfterError]

Becomes(p) ==
    /\ parsePc' = p.parsePc
    /\ binSchemaReferences' = p.binSchemaReferences
    /\ outstanding' = p.outstanding
    /\ each' = p.each
    /\ calls' = p.calls
    /\ firstError' = p.firstError
    /\ startedAfterError' = p.startedAfterError
    /\ UNCHANGED <<alarmVars, compareVars>>

\* the request issued by function fn for its item x
Request(fn, x) == [fn |-> fn, x |-> x]

\* the err the session hands to the callback of a request: NoError, or the
\* error of this request
ErrorOf(req, err) == IF err THEN <<req.fn, req.x>> ELSE NoError

\* session.browse / session.read: the request is sent, its callback pending
session_request(p, fn, x) ==
    [p EXCEPT !.outstanding = @ \cup {Request(fn, x)},
              !.startedAfterError = @ \/ p.firstError # NoError]

\* the session calls the callback of req with err
session_answer(p, req, err) ==
    [p EXCEPT !.outstanding = @ \ {req},
              !.firstError = IF @ = NoError THEN err ELSE @]

\* an exception thrown inside a callback of the session: nobody catches it
Uncaught(p) == [p EXCEPT !.parsePc = "thrown"]

\* the final callback of the outer async.series: callback(err)
parse_opcua_common_done(p, err) ==
    [p EXCEPT !.parsePc = "finished", !.calls = Append(@, err)]

\* async.eachLimit with two dictionaries in flight
for_all_binary_schemas_TwoInFlight(p) ==
    IF p.binSchemaReferences = <<>>
    THEN parse_opcua_common_done(p, NoError)
    ELSE LET first == session_request(p, "read_type_definition_xsd_value",
                                      Head(p.binSchemaReferences))
         IN  IF Len(p.binSchemaReferences) = 1
             THEN first
             ELSE session_request(first, "read_type_definition_xsd_value",
                                  p.binSchemaReferences[2])

\* async.eachLimit(binSchemaReferences, 1, ...): the next dictionary starts its
\* series with read_type_definition_xsd_value; with none left the outer series
\* goes on to its third function and to the final callback
for_all_binary_schemas(p) ==
    IF p.binSchemaReferences = <<>>
    THEN parse_opcua_common_done(p, NoError)
    ELSE session_request(p, "read_type_definition_xsd_value",
                         Head(p.binSchemaReferences))

\* the callback of the inner series without error: eachLimit takes the next
next_binary_schema(p) ==
    for_all_binary_schemas([p EXCEPT !.binSchemaReferences = Tail(@)])

\* parse_opcua_common(session, callback): the outer series starts its first
\* function, which browses the two type-system nodes
parse_opcua_common(p) ==
    session_request([p EXCEPT !.parsePc = "running"],
                    "browse_all_opc_binary_schema_and_xml_schema", 0)

\* lines 35-44: n binary dictionaries were found
browse_all_opc_binary_schema_and_xml_schema(p, err, n) ==
    IF err # NoError
    THEN parse_opcua_common_done(p, err)
    ELSE for_all_binary_schemas([p EXCEPT !.binSchemaReferences = [i \in 1..n |-> i]])

\* lines 65-80: the dictionary was read; parsed is the err of parseBinaryXSD
read_type_definition_xsd_value(p, x, err, dataType, parsed) ==
    IF err # NoError
    THEN parse_opcua_common_done(p, err)
    ELSE IF dataType # "ByteString"
    THEN Uncaught(p)
    ELSE IF parsed # NoError
    THEN parse_opcua_common_done([p EXCEPT !.firstError = IF @ = NoError THEN parsed ELSE @],
                                 parsed)
    ELSE session_request(p, "read_namespaceUri.browse", x)

\* lines 89-99: the HasProperty references of the dictionary, n of them
read_namespaceUri_browsed(p, x, err, n) ==
    IF err # NoError
    THEN parse_opcua_common_done(p, err)
    ELSE IF n = 0
    THEN Uncaught(p)
    ELSE session_request(p, "read_namespaceUri.read", x)

\* lines 94-98: err is not looked at; dataValue.value.value is dereferenced
\* and callback() is called without error
read_namespaceUri_read(p, x, err, hasDataValue) ==
    IF ~hasDataValue
    THEN Uncaught(p)
    ELSE session_request(p, "enumerate_all_type_with_id", x)

\* async.each(references, process_structure, callback): every iteratee runs
\* at once, each issuing its browse
async_each(p, n) ==
    IF n = 0
    THEN next_binary_schema([p EXCEPT !.each = [length |-> 0, completed |-> 0,
                                                 called |-> TRUE]])
    ELSE LET started == [p EXCEPT !.each = [length |-> n, completed |-> 0,
                                            called |-> FALSE]]
             issued[i \in 0..n] ==
                 IF i = 0 THEN started
                 ELSE session_request(issued[i - 1], "process_structure", i)
         IN  issued[n]

\* lines 110-151: the dictionary has n types
enumerate_all_type_with_id(p, err, n) ==
    IF err # NoError
    THEN parse_opcua_common_done(p, err)
    ELSE async_each(p, n)

\* lines 142-149 and the callback of async.each: the first error, or the last
\* of the iteratees to succeed, calls the callback of the inner series once
process_structure(p, err, n) ==
    IF err # NoError
    THEN IF p.each.called
         THEN p
         ELSE parse_opcua_common_done([p EXCEPT !.each.called = TRUE], err)
    ELSE IF n = 0
    THEN Uncaught(p)
    ELSE LET counted == [p EXCEPT !.each.completed = @ + 1]
         IN  IF counted.each.completed = counted.each.length /\ ~counted.each.called
             THEN next_binary_schema([counted EXCEPT !.each.called = TRUE])
             ELSE counted

\* the outstanding requests issued by function fn
Answering(fn) == {req \in outstanding : req.fn = fn}

\* the procedure with the callback of req about to run
Answered(req, err) == session_answer(ParseState, req, ErrorOf(req, err))

\* what parseBinaryXSD hands to its callback
ParseErrors(x) == {NoError, <<"parseBinaryXSD", x>>}

ParseInit == AlarmIdle /\ CompareIdle /\ ParseIdle

Start ==
    /\ parsePc = "idle"
    /\ Becomes(parse_opcua_common(ParseState))

BrowseAllAnswered(err, n) ==
    /\ parsePc # "thrown"
    /\ \E req \in Answering("browse_all_opc_binary_schema_and_xml_schema") :
          Becomes(browse_all_opc_binary_schema_and_xml_schema(
                      Answered(req, err), ErrorOf(req, err), n))

ReadXsdAnswered(err, dataType) ==
    /\ parsePc # "thrown"
    /\ \E req \in Answering("read_type_definition_xsd_value") :
          \E parsed \in ParseErrors(req.x) :
              Becomes(read_type_definition_xsd_value(
                          Answered(req, err), req.x, ErrorOf(req, err), dataType, parsed))

BrowseNamespaceAnswered(err, n) ==
    /\ parsePc # "thrown"
    /\ \E req \in Answering("read_namespaceUri.browse") :
          Becomes(read_namespaceUri_browsed(
                      Answered(req, err), req.x, ErrorOf(req, err), n))

\* a read that fails may or may not hand a dataValue to its callback
ReadNamespaceAnswered(err, hasDataValue) ==
    /\ parsePc # "thrown"
    /\ err \/ hasDataValue
    /\ \E req \in Answering("read_namespaceUri.read") :
          Becomes(read_namespaceUri_read(
                      Answered(req, err), req.x, ErrorOf(req, err), hasDataValue))

EnumerateAnswered(err, n) ==
    /\ parsePc # "thrown"
    /\ \E req \in Answering("enumerate_all_type_with_id") :
          Becomes(enumerate_all_type_with_id(Answered(req, err), ErrorOf(req, err), n))

ProcessStructureAnswered(err, n) ==
    /\ parsePc # "thrown"
    /\ \E req \in Answering("process_structure") :
          Becomes(process_structure(Answered(req, err), ErrorOf(req, err), n))

ParseNext ==
    \/ Start
    \/ \E err \in BOOLEAN, n \in 0..MaxSchemas : BrowseAllAnswered(err, n)
    \/ \E err \in BOOLEAN, dataType \in {"ByteString", "Null"} : ReadXsdAnswered(err, dataType)
    \/ \E err \in BOOLEAN, n \in 0..1 : BrowseNamespaceAnswered(err, n)
    \/ \E err \in BOOLEAN, hasDataValue \in BOOLEAN : ReadNamespaceAnswered(err, hasDataValue)
    \/ \E err \in BOOLEAN, n \in 0..MaxTypes : EnumerateAnswered(err, n)
    \/ \E err \in BOOLEAN, n \in 0..1 : ProcessStructureAnswered(err, n)

SpecParse == ParseInit /\ [][ParseNext]_vars

TypeOK ==
    /\ pc \in {"init", "ready", "failed"}
    /\ nodes \in [NodeIds -> DataValues]
    /\ alarmNode.activeState \in BOOLEAN
    /\ delivered \in 0..MaxDeliveries
    /\ scenario.stage \in 0..4

(***************************************************************************)
(* Properties.                                                             *)
(***************************************************************************)
This == WithEvents(alarmNode, events)

activeState == alarmNode.activeState

ValueOf(space, nodeId) == space[nodeId].value.value

\* the last operation was a delivery to the wired alarm
Delivered == pc = "ready" /\ last.op \in NodeIds

\* the last operation was a delivery that ran the comparator
ComparatorRan == Delivered /\ IsGood(last.dataValue)

\* the events emitted by the last operation
EmittedByLast == SubSeq(events, last.eventsBefore + 1, Len(events))

ConditionEvent(isActive) ==
    [transitionName |-> IF isActive THEN "Active" ELSE "Inactive",
     isActive |-> isActive, message |-> ""]

GoodPair(space) == IsGood(space[InputNodeId]) /\ IsGood(space[NormalNodeId])

\* C1: after every comparator run triggered by a delivery, activeState is true
\* iff the last input value and the last normal-state value are both known, of
\* good quality, and unequal.
C1_ActiveIffKnownGoodUnequal ==
    ComparatorRan =>
        (activeState <=> (GoodPair(nodes)
                          /\ ValueOf(nodes, NormalNodeId) # ValueOf(nodes, InputNodeId)))

\* C2: a good-quality, non-null pair (normal, input) with normal # input delivered
\* while the alarm is inactive makes activeState true and emits exactly one
\* Condition Event, ("Active", true, "").
C2_MismatchRaisesOneActiveEvent ==
    (/\ ComparatorRan
     /\ GoodPair(nodes)
     /\ ValueOf(nodes, NormalNodeId) # ValueOf(nodes, InputNodeId)
     /\ ~last.activeBefore)
    => (activeState /\ EmittedByLast = <<ConditionEvent(TRUE)>>)

C2_Witness ==
    /\ ComparatorRan
    /\ GoodPair(nodes)
    /\ ValueOf(nodes, NormalNodeId) # ValueOf(nodes, InputNodeId)
    /\ ~last.activeBefore
    /\ last.op = NormalNodeId
    /\ activeState

\* C3: a delivery whose quality is not good, or whose value is null, never
\* changes activeState and never emits a Condition Event, whatever the prior
\* activeState and the other variable's value.
C3_BadOrNullDeliveryIsNoOp ==
    (Delivered /\ ~IsGood(last.dataValue))
    => (activeState = last.activeBefore /\ EmittedByLast = <<>>)

C3_Witness ==
    /\ Delivered
    /\ last.dataValue.statusCode = "Bad"
    /\ last.dataValue.value.dataType # "Null"
    /\ last.activeBefore
    /\ activeState
    /\ ValueOf(nodes, NormalNodeId) = ValueOf(nodes, InputNodeId)

\* C4: every emitted Condition Event occurs in a step in which activeState
\* changes, one event per step, carrying isActive = the new activeState, the
\* transitionName "Active" / "Inactive" of the new state and an empty message.
C4_EventOnlyOnRealTransition ==
    [][events' # events =>
          /\ events' = Append(events, ConditionEvent(activeState'))
          /\ activeState' # activeState]_vars

C4_Witness ==
    /\ Delivered
    /\ Len(events) >= 2
    /\ EmittedByLast = <<ConditionEvent(FALSE)>>
    /\ last.activeBefore
    /\ ~activeState

\* C5: delivering the same good-quality (normal, input) pair twice in a row
\* emits at most one event in total; the second delivery emits nothing and
\* leaves activeState as the first delivery set it.
C5_SamePairTwiceEmitsAtMostOnce ==
    (/\ ComparatorRan
     /\ last.prev.op \in NodeIds
     /\ IsGood(last.prev.dataValue)
     /\ GoodPair(nodes)
     /\ GoodPair(last.nodesBefore)
     /\ ValueOf(nodes, NormalNodeId) = ValueOf(last.nodesBefore, NormalNodeId)
     /\ ValueOf(nodes, InputNodeId) = ValueOf(last.nodesBefore, InputNodeId))
    => /\ EmittedByLast = <<>>
       /\ activeState = last.activeBefore
       /\ Len(events) - last.prev.eventsBefore <= 1

C5_Witness ==
    /\ ComparatorRan
    /\ last.prev.op \in NodeIds
    /\ IsGood(last.prev.dataValue)
    /\ GoodPair(nodes)
    /\ GoodPair(last.nodesBefore)
    /\ ValueOf(nodes, NormalNodeId) = ValueOf(last.nodesBefore, NormalNodeId)
    /\ ValueOf(nodes, InputNodeId) = ValueOf(last.nodesBefore, InputNodeId)
    /\ Len(events) - last.prev.eventsBefore = 1
    /\ activeState

\* C6: with the normal-state value fixed and known, a good-quality input
\* delivery flips activeState exactly when the input crosses the equality
\* boundary (becomes equal / becomes unequal to normal), and emits exactly one
\* event on a crossing and none otherwise.
C6_FlipExactlyOnCrossing ==
    (/\ ComparatorRan
     /\ last.op = InputNodeId
     /\ GoodPair(last.nodesBefore)
     /\ GoodPair(nodes))
    => LET normal == ValueOf(nodes, NormalNodeId)
           crossing == (ValueOf(last.nodesBefore, InputNodeId) = normal)
                         # (ValueOf(nodes, InputNodeId) = normal)
       IN  /\ (activeState # last.activeBefore) <=> crossing
           /\ EmittedByLast = IF crossing THEN <<ConditionEvent(activeState)>> ELSE <<>>

\* C7: for a # b, starting with normal = a on an inactive alarm, the trace
\* input=a, input=b, input=b, normal=b yields activeState false, true, true,
\* false and emits exactly ("Active", true, "") then ("Inactive", false, "").
C7_NormalStateDeliveryRecomputes ==
    (pc = "ready" /\ scenario.stage > 0)
    => /\ scenario.states = SubSeq(<<FALSE, TRUE, TRUE, FALSE>>, 1, scenario.stage)
       /\ SubSeq(events, scenario.eventsBefore + 1, Len(events))
            = CASE scenario.stage = 1 -> <<>>
                [] scenario.stage \in {2, 3} -> <<ConditionEvent(TRUE)>>
                [] scenario.stage = 4 -> <<ConditionEvent(TRUE), ConditionEvent(FALSE)>>

C7_Witness ==
    /\ pc = "ready"
    /\ scenario.stage = 4
    /\ scenario.a # scenario.b
    /\ last.op = NormalNodeId
    /\ ~activeState

\* C8: every comparator run uses, for each stream, the last delivered
\* good-quality value of that stream: a bad-quality or null delivery on one
\* stream never alters the value a later comparator run, triggered by the other
\* stream, uses for it.
C8_ComparatorUsesLastGoodValue ==
    /\ (ComparatorRan /\ last.op = InputNodeId /\ lastGood[NormalNodeId] # undefined)
           => getNormalStateValue(This, nodes) = lastGood[NormalNodeId]
    /\ (ComparatorRan /\ last.op = NormalNodeId /\ lastGood[InputNodeId] # undefined)
           => getInputNodeValue(This, nodes) = lastGood[InputNodeId]

\* C9: instantiate called with options missing inputNode or normalState fails
\* before any side effect: no base alarm object is built, nothing is written to
\* the NormalState property, no listener is installed, the options are untouched.
C9_MissingOptionFailsBeforeSideEffects ==
    (/\ pc # "init"
     /\ ~(hasOwnProperty(callOptions, "inputNode") /\ hasOwnProperty(callOptions, "normalState")))
    => /\ pc = "failed"
       /\ error # ""
       /\ alarmObjects = {}
       /\ alarmNode = NoAlarm
       /\ listeners = {}
       /\ events = <<>>
       /\ ~hasOwnProperty(callOptions, "optionals")

C9_Witness ==
    /\ pc = "failed"
    /\ error = "must provide a normalState Node"
    /\ hasOwnProperty(callOptions, "inputNode")
    /\ callOptions["inputNode"] = InputNodeId
    /\ alarmObjects = {}

\* C10: when the inputNode or the normalState identifier does not resolve to a
\* live node, instantiate fails and leaves no partially-wired alarm behind: no
\* alarm object remains created and no listener is installed on either node.
C10_UnresolvedNodeLeavesNothingBehind ==
    (/\ pc # "init"
     /\ hasOwnProperty(callOptions, "inputNode")
     /\ hasOwnProperty(callOptions, "normalState")
     /\ \/ findNode(nodes, callOptions["inputNode"]) = NullNodeId
        \/ findNode(nodes, callOptions["normalState"]) = NullNodeId)
    => /\ pc = "failed"
       /\ alarmObjects = {}
       /\ listeners = {}

\* C11: setNormalStateValue fails for every argument, in every state of the
\* wired alarm, and the failed call changes nothing: the variables' values,
\* activeState and the emitted events are unchanged.
C11_SetNormalStateValueAlwaysFails ==
    [][setCall' # setCall =>
          /\ setCall'.error # ""
          /\ nodes' = nodes
          /\ alarmNode' = alarmNode
          /\ events' = events]_vars

C11_Witness ==
    /\ setCall.called
    /\ setCall.active
    /\ setCall.error = "Not Implemented yet"
    /\ Len(events) > 0

SameTypedValue(normal, input) ==
    normal.dataType = input.dataType /\ normal.value[1] = input.value[1]

\* C13: for known normal and input values drawn from a set that mixes types,
\* the comparator leaves activeState = (normal # input) under exact value
\* equality: false for equal values of the same type, true whenever the two
\* differ in type or in representation.
C13_ExactEqualityOverMixedTypes ==
    compare.state \in {"input", "normal"} =>
        (compare.activeState <=> ~SameTypedValue(compare.normal, compare.input))

\* C14 (as first stated): after a successful instantiate the alarm owns exactly
\* two value-change listeners, one on the input variable and one on the
\* normal-state variable.
C14_ExactlyTwoSubscriptions ==
    pc = "ready" =>
        listeners = {<<InputNodeId, "_onInputDataValueChange">>,
                     <<NormalNodeId, "_onNormalStateDataValueChange">>}

\* C14 (amended): after a successful instantiate the alarm owns one listener on
\* the input variable and one on the normal-state variable, and a third, empty
\* one on its own NormalState property; no later operation changes the
\* listeners, the InputNode property or the NormalState property.
C14_ListenersAndRefsFixed ==
    pc = "ready" =>
        /\ listeners = {<<callOptions["inputNode"], "_onInputDataValueChange">>,
                        <<callOptions["normalState"], "_onNormalStateDataValueChange">>,
                        <<NormalStateProperty, "todo">>}
        /\ alarmNode.inputNode = callOptions["inputNode"]
        /\ alarmNode.normalState = callOptions["normalState"]

C14_Witness ==
    /\ pc = "ready"
    /\ Cardinality(listeners) = 3
    /\ delivered = MaxDeliveries
    /\ Len(events) >= 2
    /\ alarmNode.normalState = NormalNodeId

\* C16: a comparator run with the normal value or the input value unknown
\* sets activeState = false and emits nothing, whether the alarm was inactive
\* or active before.
C16_UnknownValueClearsSilently ==
    (/\ ComparatorRan
     /\ \/ isNullOrUndefined(ValueOf(nodes, NormalNodeId))
        \/ isNullOrUndefined(ValueOf(nodes, InputNodeId)))
    => (~activeState /\ EmittedByLast = <<>>)

C16_Witness ==
    /\ ComparatorRan
    /\ last.op = InputNodeId
    /\ isNullOrUndefined(ValueOf(nodes, NormalNodeId))
    /\ last.activeBefore
    /\ ~activeState

\* C17: the emitted Condition Events strictly alternate, starting with
\* "Active": never two "Active" without an "Inactive" between them, nor two
\* "Inactive" without an "Active".
C17_EventsAlternate ==
    \A i \in 1..Len(events) : events[i] = ConditionEvent(i % 2 = 1)

\* C18: from any state of the wired alarm, one good-quality input delivery and
\* one good-quality normal-state delivery lead to the same final activeState
\* whichever is processed first, and that state depends only on the two values.
AfterDelivery(state, nodeId, dataValue) ==
    LET space == setValueFromSource(state.nodes, nodeId, dataValue)
    IN  [nodes |-> space,
         this |-> emitValueChanged(state.this, listeners, space, nodeId, dataValue)]

C18_DeliveryOrderConfluent ==
    pc = "ready" =>
        \A input, normal \in {dv \in DataValues : IsGood(dv)} :
            LET here == [nodes |-> nodes, this |-> This]
                inputFirst == AfterDelivery(AfterDelivery(here, InputNodeId, input),
                                            NormalNodeId, normal)
                normalFirst == AfterDelivery(AfterDelivery(here, NormalNodeId, normal),
                                             InputNodeId, input)
            IN  /\ inputFirst.this.activeState = normalFirst.this.activeState
                /\ inputFirst.this.activeState = (normal.value.value # input.value.value)

\* a state from which the two orders emit different events and still agree
C18_Witness ==
    /\ pc = "ready"
    /\ delivered > 0
    /\ \E input, normal \in {dv \in DataValues : IsGood(dv)} :
           LET here == [nodes |-> nodes, this |-> This]
               inputFirst == AfterDelivery(AfterDelivery(here, InputNodeId, input),
                                           NormalNodeId, normal)
               normalFirst == AfterDelivery(AfterDelivery(here, NormalNodeId, normal),
                                            InputNodeId, input)
           IN  /\ inputFirst.this.events # normalFirst.this.events
               /\ inputFirst.this.activeState = normalFirst.this.activeState

\* C19 (as first stated): parse_opcua_common never has more than one session
\* request outstanding.
C19_AtMostOneOutstanding == Cardinality(outstanding) <= 1

OnlyStructuresTogether ==
    \/ Cardinality(outstanding) <= 1
    \/ /\ \A req \in outstanding : req.fn = "process_structure"
       /\ Cardinality(outstanding) <= each.length

IssuedFromCallback ==
    outstanding' \ outstanding # {} => (parsePc = "idle" \/ outstanding \ outstanding' # {})

\* C19 (amended): more than one request is outstanding only while the
\* process_structure browses of one dictionary are in flight, then at most one
\* per type of that dictionary and nothing else; and every request is issued
\* by the call of parse_opcua_common or from the callback of an answered request.
C19_OneOutstandingExceptStructures ==
    []OnlyStructuresTogether /\ [][IssuedFromCallback]_vars

C19_Witness ==
    /\ Cardinality(outstanding) >= 2
    /\ \A req \in outstanding : req.fn = "process_structure"

\* parse_opcua_common has nothing left to run
ParseTerminated == parsePc = "thrown" \/ (parsePc # "idle" /\ outstanding = {})

\* C20: for every outcome of the session requests the completion callback is
\* invoked exactly once, with no error when every request succeeded and with
\* the error of the first failing request otherwise, and no request is issued
\* after one has failed.
C20_CallbackOnceWithFirstError ==
    /\ Len(calls) <= 1
    /\ ~startedAfterError
    /\ ParseTerminated => calls = <<firstError>>

=============================================================================
